---- MODULE Spec2Model ----
(***************************************************************************)
(* A model of advanced-vector/vector.h: RawMemory<T> (an owner of raw,     *)
(* unconstructed storage) and Vector<T> (size_ live elements in the first  *)
(* slots of a RawMemory).  The heap is modelled explicitly: every buffer   *)
(* is an array of slots, a slot is unconstructed (Dead), holds a value or  *)
(* holds a moved-from object.  Each public method is a pure operator on a  *)
(* machine record m (heap, vectors, pending fault) and one action applies  *)
(* it.  Exceptions are injected by a fault number f: the f-th step of the  *)
(* call that is able to throw does throw (f = 0: nothing throws).          *)
(***************************************************************************)
EXTENDS Integers, Sequences, FiniteSets, TLC

VARIABLES heap, vec, kind, limit, throws

vars == <<heap, vec, kind, limit, throws>>

\* ------------------------------------------------------------------ bounds
\* The largest capacity a vector is given, in the runs with one vector and in
\* the runs with two.
MaxCap == 4
MaxPairCap == 3
\* Number of calls that end by an injected exception in one run.
MaxThrows == 1

\* ------------------------------------------------------------- the domain
Vecs == {"a", "b"}
\* Element values; 0 is the value-initialized T().
Values == {0, 1}
\* A slot of raw memory holding no constructed object.
Dead == -1
\* The (valid, unspecified) value of an object that has been moved from.
MovedFrom == -2
\* nullptr.
NULL == 0
\* Addresses operator new can return: one per vector plus one temporary.
BufIds == 1..(Cardinality(Vecs) + 1)
\* The element type's traits, which select the if constexpr branches:
\*   NothrowMove: is_nothrow_move_constructible_v<T>
\*   Copy:        copy constructible, move constructor may throw
\*   MoveOnly:    not copy constructible, move constructor may throw
Kinds == {"NothrowMove", "Copy", "MoveOnly"}
Faults == 0..(MaxCap + 2)

NullRaw == [buffer_ |-> NULL, capacity_ |-> 0]
NoVector == [alive |-> FALSE, data_ |-> NullRaw, size_ |-> 0]
EmptyVector == [alive |-> TRUE, data_ |-> NullRaw, size_ |-> 0]

\* ------------------------------------------------------------ observation
\* The element sequence of a vector: slots [0, size_) of its buffer.
ElemsOf(h, V) == [i \in 0..(V.size_ - 1) |-> h[V.data_.buffer_][i]]
Elems(v) == ElemsOf(heap, vec[v])
Size(v) == vec[v].size_
Capacity(v) == vec[v].data_.capacity_
\* Constructed objects in the slots of buffer b.
LiveSlots(h, b) == IF b = NULL THEN {} ELSE {i \in DOMAIN h[b] : h[b][i] # Dead}

\* -------------------------------------------------------- the machine
Start(f) == [heap |-> heap, vec |-> vec @@ ("rhs_copy" :> NoVector), f |-> f, thrown |-> "", leaked |-> 0, allocs |-> 0, peak |-> 0, dfree |-> FALSE, raw |-> NullRaw, ret |-> 0]

\* A step that may throw: it throws when the pending fault number is 1.
Tick(m, can, why) == IF can THEN [m EXCEPT !.f = IF @ = 0 THEN 0 ELSE @ - 1, !.thrown = IF m.f = 1 THEN why ELSE ""] ELSE m

MoveTransfer == kind \in {"NothrowMove", "MoveOnly"}
MoveCanThrow == kind # "NothrowMove"

\* ----------------------------------------------------------- RawMemory
Allocate(h, n) == IF n # 0 THEN CHOOSE id \in BufIds \ DOMAIN h : \A j \in BufIds \ DOMAIN h : id <= j ELSE NULL

Deallocate(m, buf) ==
  IF buf = NULL THEN m
  ELSE IF buf \notin DOMAIN m.heap THEN [m EXCEPT !.dfree = TRUE]
  ELSE [m EXCEPT !.heap = [b \in (DOMAIN @) \ {buf} |-> @[b]],
                 !.leaked = @ + Cardinality(LiveSlots(m.heap, buf))]

\* RawMemory(size_t) that asks operator new for storage even when the capacity is 0.
RawMemoryNewAlways(m, capacity) ==
  LET t == Tick(m, TRUE, "alloc")
  IN IF t.thrown # "" THEN t
     ELSE LET id == Allocate(t.heap, 1)
          IN [t EXCEPT !.heap = (id :> [i \in 0..(capacity - 1) |-> Dead]) @@ t.heap,
                       !.raw = [buffer_ |-> id, capacity_ |-> capacity],
                       !.allocs = @ + 1,
                       !.peak = IF capacity > @ THEN capacity ELSE @]

\* explicit RawMemory(size_t capacity); the new object is left in m.raw.
RawMemoryNew(m, capacity) ==
  IF capacity = 0 THEN [m EXCEPT !.raw = NullRaw]
  ELSE LET t == Tick(m, TRUE, "alloc")
       IN IF t.thrown # "" THEN t
          ELSE LET id == Allocate(t.heap, capacity)
               IN [t EXCEPT !.heap = (id :> [i \in 0..(capacity - 1) |-> Dead]) @@ t.heap,
                            !.raw = [buffer_ |-> id, capacity_ |-> capacity],
                            !.allocs = @ + 1,
                            !.peak = IF capacity > @ THEN capacity ELSE @]

\* ~RawMemory()
RawMemoryDtor(m, raw) == Deallocate(m, raw.buffer_)

\* ------------------------------------------- <memory> / <new> primitives
\* A constructor argument is a value, or a reference to slot i of buffer buf, which is
\* read when the constructor runs; a slot that is gone reads as raw memory.
Ref(buf, i) == 100 + 10 * buf + i
Deref(m, x) ==
  IF x < 100 THEN x
  ELSE LET b == (x - 100) \div 10
           i == (x - 100) % 10
       IN IF b \in DOMAIN m.heap /\ i \in DOMAIN m.heap[b] THEN m.heap[b][i] ELSE Dead

\* new (buf + i) T(x)
Construct(m, buf, i, x, can, why) ==
  LET t == Tick(m, can, why)
  IN IF t.thrown # "" THEN t
     ELSE [t EXCEPT !.heap[buf][i] = Deref(t, x),
                    !.leaked = @ + (IF m.heap[buf][i] # Dead THEN 1 ELSE 0)]

\* The slots of buffer b at off, off+1, ... set from the function val on 0..n-1.
Fill(h, b, off, n, val) == [h EXCEPT ![b] = [i \in DOMAIN @ |-> IF i \in off..(off + n - 1) THEN val[i - off] ELSE @[i]]]
Overwritten(h, b, off, n) == Cardinality({i \in off..(off + n - 1) : h[b][i] # Dead})

\* std::uninitialized_copy_n(src + soff, n, dst + doff): when the k-th copy throws,
\* the k-1 objects already constructed are destroyed before the exception leaves.
UninitializedCopyN(m, src, soff, n, dst, doff) ==
  IF n = 0 THEN m
  ELSE IF m.f \in 1..n
  THEN [m EXCEPT !.f = 0, !.thrown = "copy",
                 !.heap = Fill(@, dst, doff, m.f - 1, [j \in 0..(n - 1) |-> Dead]),
                 !.leaked = @ + Overwritten(m.heap, dst, doff, m.f - 1)]
  ELSE [m EXCEPT !.f = IF @ = 0 THEN 0 ELSE @ - n,
                 !.heap = Fill(@, dst, doff, n, [j \in 0..(n - 1) |-> m.heap[src][soff + j]]),
                 !.leaked = @ + Overwritten(m.heap, dst, doff, n)]

\* std::uninitialized_move_n: as the copy, and every source moved from is left
\* in the moved-from state.  A nothrow move constructor never throws.
UninitializedMoveN(m, src, soff, n, dst, doff) ==
  IF n = 0 THEN m
  ELSE IF MoveCanThrow /\ m.f \in 1..n
  THEN [m EXCEPT !.f = 0, !.thrown = "move",
                 !.heap = Fill(Fill(@, dst, doff, m.f - 1, [j \in 0..(n - 1) |-> Dead]),
                               src, soff, m.f - 1, [j \in 0..(n - 1) |-> MovedFrom]),
                 !.leaked = @ + Overwritten(m.heap, dst, doff, m.f - 1)]
  ELSE [m EXCEPT !.f = IF @ = 0 \/ ~MoveCanThrow THEN @ ELSE @ - n,
                 !.heap = Fill(Fill(@, dst, doff, n, [j \in 0..(n - 1) |-> m.heap[src][soff + j]]),
                               src, soff, n, [j \in 0..(n - 1) |-> MovedFrom]),
                 !.leaked = @ + Overwritten(m.heap, dst, doff, n)]

\* std::uninitialized_value_construct_n(dst + doff, n)
UninitializedValueConstructN(m, dst, doff, n) ==
  IF n = 0 THEN m
  ELSE IF m.f \in 1..n
  THEN [m EXCEPT !.f = 0, !.thrown = "ctor",
                 !.heap = Fill(@, dst, doff, m.f - 1, [j \in 0..(n - 1) |-> Dead]),
                 !.leaked = @ + Overwritten(m.heap, dst, doff, m.f - 1)]
  ELSE [m EXCEPT !.f = IF @ = 0 THEN 0 ELSE @ - n,
                 !.heap = Fill(@, dst, doff, n, [j \in 0..(n - 1) |-> 0]),
                 !.leaked = @ + Overwritten(m.heap, dst, doff, n)]

\* std::destroy_n(buf + off, n) and std::destroy_at
DestroyN(m, buf, off, n) == IF n = 0 THEN m ELSE [m EXCEPT !.heap = Fill(@, buf, off, n, [j \in 0..(n - 1) |-> Dead])]

\* The transfer of n live elements into new storage, as every growth path selects it.
Transfer(m, src, soff, n, dst, doff) == IF MoveTransfer THEN UninitializedMoveN(m, src, soff, n, dst, doff) ELSE UninitializedCopyN(m, src, soff, n, dst, doff)

\* n assignments buf[d] = std::move(buf[s]), stepping s and d by dir.
RECURSIVE AssignSteps(_, _, _, _, _, _)
AssignSteps(h, buf, s, d, n, dir) == IF n <= 0 THEN h ELSE AssignSteps([h EXCEPT ![buf][d] = h[buf][s], ![buf][s] = MovedFrom], buf, s + dir, d + dir, n - 1, dir)

\* How many of n assignments complete: all, or f - 1 when assignment f throws.
Completed(m, n, can) == IF can /\ m.f \in 1..n THEN m.f - 1 ELSE n
AfterSteps(m, n, can, why) == [m EXCEPT !.f = IF ~can \/ @ = 0 THEN @ ELSE IF @ <= n THEN 0 ELSE @ - n, !.thrown = IF can /\ m.f \in 1..n THEN why ELSE ""]

\* std::move(buf + first, buf + lim, buf + dfirst): element move assignment, front to back.
StdMove(m, buf, first, lim, dfirst) ==
  LET n == lim - first
  IN IF n <= 0 THEN m
     ELSE [AfterSteps(m, n, MoveCanThrow, "assign") EXCEPT !.heap = AssignSteps(@, buf, first, dfirst, Completed(m, n, MoveCanThrow), 1)]

\* std::move_backward(buf + first, buf + lim, buf + dlast): back to front.
StdMoveBackward(m, buf, first, lim, dlast) ==
  LET n == lim - first
  IN IF n <= 0 THEN m
     ELSE [AfterSteps(m, n, MoveCanThrow, "assign") EXCEPT !.heap = AssignSteps(@, buf, lim - 1, dlast - 1, Completed(m, n, MoveCanThrow), -1)]

\* for (index = 0; index != n; ++index) data_[index] = rhs.data_[index];
CopyAssignLoop(m, dst, src, n) ==
  IF n = 0 THEN m
  ELSE [AfterSteps(m, n, TRUE, "assign") EXCEPT !.heap = Fill(@, dst, 0, Completed(m, n, TRUE), [j \in 0..(n - 1) |-> m.heap[src][j]])]

\* ---------------------------------------------------------------- Vector
\* void Swap(Vector& other) noexcept
Swap(m, v, other) ==
  [m EXCEPT !.vec = [x \in DOMAIN @ |-> IF x = v THEN [@[v] EXCEPT !.data_ = m.vec[other].data_, !.size_ = m.vec[other].size_]
                                        ELSE IF x = other THEN [@[other] EXCEPT !.data_ = m.vec[v].data_, !.size_ = m.vec[v].size_]
                                        ELSE @[x]]]

\* Vector() = default
DefaultCtor(m, v) == [m EXCEPT !.vec[v] = EmptyVector]

\* explicit Vector(size_t size)
SizedCtor(m, v, size) ==
  LET m1 == RawMemoryNew(m, size)
  IN IF m1.thrown # "" THEN m1
     ELSE LET m2 == UninitializedValueConstructN(m1, m1.raw.buffer_, 0, size)
          IN IF m2.thrown # "" THEN RawMemoryDtor(m2, m1.raw)
             ELSE [m2 EXCEPT !.vec[v] = [alive |-> TRUE, data_ |-> m1.raw, size_ |-> size]]

\* A copy constructor that copies the members instead of the elements.
CopyCtorShallow(m, v, other) == [m EXCEPT !.vec[v] = m.vec[other]]

\* Vector(const Vector& other)
CopyCtor(m, v, other) ==
  LET O == m.vec[other]
      m1 == RawMemoryNew(m, O.size_)
  IN IF m1.thrown # "" THEN m1
     ELSE LET m2 == UninitializedCopyN(m1, O.data_.buffer_, 0, O.size_, m1.raw.buffer_, 0)
          IN IF m2.thrown # "" THEN RawMemoryDtor(m2, m1.raw)
             ELSE [m2 EXCEPT !.vec[v] = [alive |-> TRUE, data_ |-> m1.raw, size_ |-> O.size_]]

\* Vector(Vector&& other) noexcept
MoveCtor(m, v, other) == Swap(DefaultCtor(m, v), v, other)

\* ~Vector(), then ~RawMemory() of the member data_
Dtor(m, v) ==
  LET V == m.vec[v]
      m1 == DestroyN(m, V.data_.buffer_, 0, V.size_)
  IN [RawMemoryDtor(m1, V.data_) EXCEPT !.vec[v] = NoVector]

\* Copy assignment that always copies into new storage and swaps.
CopyAssignBySwap(m, v, rhs) ==
  LET m1 == CopyCtor(m, "rhs_copy", rhs)
  IN IF m1.thrown # "" THEN m1 ELSE Dtor(Swap(m1, v, "rhs_copy"), "rhs_copy")

\* Vector& operator=(const Vector& rhs)
CopyAssign(m, v, rhs) ==
  LET V == m.vec[v]
      R == m.vec[rhs]
  IN IF v = rhs THEN m
     ELSE IF R.size_ > V.data_.capacity_
     THEN LET m1 == CopyCtor(m, "rhs_copy", rhs)
          IN IF m1.thrown # "" THEN m1 ELSE Dtor(Swap(m1, v, "rhs_copy"), "rhs_copy")
     ELSE IF V.size_ > R.size_
     THEN LET m1 == CopyAssignLoop(m, V.data_.buffer_, R.data_.buffer_, R.size_)
          IN IF m1.thrown # "" THEN m1
             ELSE [DestroyN(m1, V.data_.buffer_, R.size_, V.size_ - R.size_) EXCEPT !.vec[v].size_ = R.size_]
     ELSE LET m1 == CopyAssignLoop(m, V.data_.buffer_, R.data_.buffer_, V.size_)
          IN IF m1.thrown # "" THEN m1
             ELSE LET m2 == UninitializedCopyN(m1, R.data_.buffer_, V.size_, R.size_ - V.size_, V.data_.buffer_, V.size_)
                  IN IF m2.thrown # "" THEN m2 ELSE [m2 EXCEPT !.vec[v].size_ = R.size_]

\* Vector& operator=(Vector&& rhs) noexcept
MoveAssign(m, v, rhs) == IF v # rhs THEN Swap(m, v, rhs) ELSE m

\* PushBack that moves the old elements into the new storage before it builds the new one.
PushBackTransferFirst(m, v, value) ==
  LET V == m.vec[v]
  IN IF V.size_ = V.data_.capacity_
     THEN LET m1 == RawMemoryNew(m, IF V.size_ = 0 THEN 1 ELSE V.size_ * 2)
              new_data == m1.raw
          IN IF m1.thrown # "" THEN m1
             ELSE LET m2 == UninitializedMoveN(m1, V.data_.buffer_, 0, V.size_, new_data.buffer_, 0)
                  IN IF m2.thrown # "" THEN RawMemoryDtor(m2, new_data)
                     ELSE LET m3 == Construct(m2, new_data.buffer_, V.size_, value, TRUE, "ctor")
                          IN IF m3.thrown # "" THEN RawMemoryDtor(m3, new_data)
                             ELSE LET m4 == DestroyN(m3, V.data_.buffer_, 0, V.size_)
                                      m5 == [m4 EXCEPT !.vec[v].data_ = new_data]
                                  IN [RawMemoryDtor(m5, V.data_) EXCEPT !.vec[v].size_ = @ + 1]
     ELSE LET m1 == Construct(m, V.data_.buffer_, V.size_, value, TRUE, "ctor")
          IN IF m1.thrown # "" THEN m1 ELSE [m1 EXCEPT !.vec[v].size_ = @ + 1]

\* template <typename Type> void PushBack(Type&& value)
PushBack(m, v, value) ==
  LET V == m.vec[v]
  IN IF V.size_ = V.data_.capacity_
     THEN LET new_capacity == IF V.size_ = 0 THEN 1 ELSE V.size_ * 2
              m1 == RawMemoryNew(m, new_capacity)
              new_data == m1.raw
          IN IF m1.thrown # "" THEN m1
             ELSE LET m2 == Construct(m1, new_data.buffer_, V.size_, value, TRUE, "ctor")
                  IN IF m2.thrown # "" THEN RawMemoryDtor(m2, new_data)
                     ELSE LET m3 == Transfer(m2, V.data_.buffer_, 0, V.size_, new_data.buffer_, 0)
                          IN IF m3.thrown # "" THEN RawMemoryDtor(m3, new_data)
                             ELSE LET m4 == DestroyN(m3, V.data_.buffer_, 0, V.size_)
                                      m5 == [m4 EXCEPT !.vec[v].data_ = new_data]
                                  IN [RawMemoryDtor(m5, V.data_) EXCEPT !.vec[v].size_ = @ + 1]
     ELSE LET m1 == Construct(m, V.data_.buffer_, V.size_, value, TRUE, "ctor")
          IN IF m1.thrown # "" THEN m1 ELSE [m1 EXCEPT !.vec[v].size_ = @ + 1]

\* EmplaceBack that counts the new element before it is in place.
EmplaceBackCountFirst(m, v, args) ==
  LET r == PushBack(m, v, args)
  IN IF r.thrown # "" THEN [r EXCEPT !.vec[v].size_ = @ + 1] ELSE [r EXCEPT !.ret = m.vec[v].size_]

\* template <typename... Args> T& EmplaceBack(Args&&... args); m.ret is the index of the returned element
EmplaceBack(m, v, args) ==
  LET V == m.vec[v]
  IN IF V.size_ = V.data_.capacity_
     THEN LET new_capacity == IF V.size_ = 0 THEN 1 ELSE V.size_ * 2
              m1 == RawMemoryNew(m, new_capacity)
              new_data == m1.raw
          IN IF m1.thrown # "" THEN m1
             ELSE LET m2 == Construct(m1, new_data.buffer_, V.size_, args, TRUE, "ctor")
                  IN IF m2.thrown # "" THEN RawMemoryDtor(m2, new_data)
                     ELSE LET m3 == Transfer(m2, V.data_.buffer_, 0, V.size_, new_data.buffer_, 0)
                          IN IF m3.thrown # "" THEN RawMemoryDtor(m3, new_data)
                             ELSE LET m4 == DestroyN(m3, V.data_.buffer_, 0, V.size_)
                                      m5 == [m4 EXCEPT !.vec[v].data_ = new_data]
                                  IN [RawMemoryDtor(m5, V.data_) EXCEPT !.vec[v].size_ = @ + 1, !.ret = V.size_]
     ELSE LET m1 == Construct(m, V.data_.buffer_, V.size_, args, TRUE, "ctor")
          IN IF m1.thrown # "" THEN m1 ELSE [m1 EXCEPT !.vec[v].size_ = @ + 1, !.ret = V.size_]

\* Emplace that puts the new element behind the last one whatever the position.
EmplaceAppend(m, v, pos, args) == [EmplaceBack(m, v, args) EXCEPT !.ret = pos]

\* template <typename... Args> iterator Emplace(const_iterator pos, Args&&... args)
\* pos is the iterator's distance from begin(); m.ret is the returned iterator's.
Emplace(m, v, pos, args) ==
  LET V == m.vec[v]
      new_index == pos
  IN IF pos = V.size_ THEN EmplaceBack(m, v, args)
     ELSE IF V.size_ = V.data_.capacity_
     THEN LET new_capacity == IF V.size_ = 0 THEN 1 ELSE V.size_ * 2
              m1 == RawMemoryNew(m, new_capacity)
              new_data == m1.raw
          IN IF m1.thrown # "" THEN m1
             ELSE LET m2 == Construct(m1, new_data.buffer_, new_index, args, TRUE, "ctor")
                  IN IF m2.thrown # "" THEN RawMemoryDtor(m2, new_data)
                     ELSE LET m3 == Transfer(m2, V.data_.buffer_, 0, new_index, new_data.buffer_, 0)
                          IN IF m3.thrown # "" THEN RawMemoryDtor(m3, new_data)
                             ELSE LET m4 == Transfer(m3, V.data_.buffer_, new_index, V.size_ - new_index, new_data.buffer_, new_index + 1)
                                  IN IF m4.thrown # "" THEN RawMemoryDtor(m4, new_data)
                                     ELSE LET m5 == DestroyN(m4, V.data_.buffer_, 0, V.size_)
                                              m6 == [m5 EXCEPT !.vec[v].data_ = new_data]
                                          IN [RawMemoryDtor(m6, V.data_) EXCEPT !.vec[v].size_ = @ + 1, !.ret = new_index]
     ELSE LET buf == V.data_.buffer_
              t1 == Tick(m, TRUE, "ctor")
              tmp == Deref(t1, args)
          IN IF t1.thrown # "" THEN t1
             ELSE LET m2 == Construct(t1, buf, V.size_, t1.heap[buf][V.size_ - 1], MoveCanThrow, "move")
                  IN IF m2.thrown # "" THEN m2
                     ELSE LET m3 == [m2 EXCEPT !.heap[buf][V.size_ - 1] = MovedFrom]
                              m4 == StdMoveBackward(m3, buf, new_index, V.size_ - 1, V.size_)
                          IN IF m4.thrown # "" THEN m4
                             ELSE LET m5 == Tick(m4, MoveCanThrow, "assign")
                                  IN IF m5.thrown # "" THEN m5
                                     ELSE [m5 EXCEPT !.heap[buf][new_index] = tmp, !.vec[v].size_ = @ + 1, !.ret = new_index]

\* Insert that grows the storage by one slot instead of doubling it.
InsertGrowByOne(m, v, pos, value) ==
  LET r == Emplace(m, v, pos, value)
  IN IF r.thrown = "" /\ m.vec[v].size_ = m.vec[v].data_.capacity_
     THEN [r EXCEPT !.vec[v].data_.capacity_ = m.vec[v].size_ + 1]
     ELSE r

\* iterator Insert(const_iterator pos, const T& value) and Insert(const_iterator pos, T&& value)
Insert(m, v, pos, value) == Emplace(m, v, pos, value)

\* PopBack that forgets the destructor call.
PopBackKeep(m, v) == IF m.vec[v].size_ # 0 THEN [m EXCEPT !.vec[v].size_ = @ - 1] ELSE m

\* PopBack that decrements the size without looking at it.
PopBackUnchecked(m, v) ==
  IF m.vec[v].size_ # 0
  THEN [DestroyN(m, m.vec[v].data_.buffer_, m.vec[v].size_ - 1, 1) EXCEPT !.vec[v].size_ = @ - 1]
  ELSE [m EXCEPT !.vec[v].size_ = @ - 1]

\* void PopBack()
PopBack(m, v) ==
  LET V == m.vec[v]
  IN IF V.size_ # 0
     THEN [DestroyN(m, V.data_.buffer_, V.size_ - 1, 1) EXCEPT !.vec[v].size_ = @ - 1]
     ELSE m

\* Erase that drops the last element without shifting the tail down.
EraseNoShift(m, v, pos) == [DestroyN(m, m.vec[v].data_.buffer_, m.vec[v].size_ - 1, 1) EXCEPT !.vec[v].size_ = @ - 1, !.ret = pos]

\* Erase that shifts the tail down and forgets to destroy the vacated slot.
EraseKeepLast(m, v, pos) ==
  LET m1 == StdMove(m, m.vec[v].data_.buffer_, pos + 1, m.vec[v].size_, pos)
  IN IF m1.thrown # "" THEN m1 ELSE [m1 EXCEPT !.vec[v].size_ = @ - 1, !.ret = pos]

\* iterator Erase(const_iterator pos); a failed assert aborts the program ("assert"), and
\* std::move over the range [end() + 1, end()) that pos = end() gives is undefined behaviour.
Erase(m, v, pos) ==
  LET V == m.vec[v]
      buf == V.data_.buffer_
      new_index == pos
      m1 == StdMove(m, buf, new_index + 1, V.size_, new_index)
  IN IF ~(pos >= 0 /\ pos <= V.size_) THEN [m EXCEPT !.thrown = "assert"]
     ELSE IF ~(V.size_ # 0) THEN [m EXCEPT !.thrown = "assert"]
     ELSE IF new_index + 1 > V.size_ THEN [m EXCEPT !.thrown = "undefined"]
     ELSE IF m1.thrown # "" THEN m1
     ELSE [DestroyN(m1, buf, V.size_ - 1, 1) EXCEPT !.vec[v].size_ = @ - 1, !.ret = new_index]

\* At with the bound checked one too far.
AtOffByOne(m, v, index) ==
  IF index > m.vec[v].size_ THEN [m EXCEPT !.thrown = "range"]
  ELSE [m EXCEPT !.ret = IF index < m.vec[v].size_ THEN m.heap[m.vec[v].data_.buffer_][index] ELSE 0]

\* T& At(size_t index); m.ret is the element referred to
At(m, v, index) ==
  LET V == m.vec[v]
  IN IF index >= V.size_ THEN [m EXCEPT !.thrown = "range"]
     ELSE [m EXCEPT !.ret = m.heap[V.data_.buffer_][index]]

\* T& operator[](size_t index), and an assignment through the reference
Subscript(m, v, index, value) == [m EXCEPT !.heap[m.vec[v].data_.buffer_][index] = value]

\* void Clear() noexcept
Clear(m, v) ==
  LET V == m.vec[v]
  IN [DestroyN(m, V.data_.buffer_, 0, V.size_) EXCEPT !.vec[v].size_ = 0]

\* void Reserve(size_t new_capacity)
Reserve(m, v, new_capacity) ==
  LET V == m.vec[v]
  IN IF new_capacity <= V.size_ THEN m
     ELSE LET m1 == RawMemoryNew(m, new_capacity)
              new_data == m1.raw
          IN IF m1.thrown # "" THEN m1
             ELSE LET m2 == Transfer(m1, V.data_.buffer_, 0, V.size_, new_data.buffer_, 0)
                  IN IF m2.thrown # "" THEN RawMemoryDtor(m2, new_data)
                     ELSE LET m3 == DestroyN(m2, V.data_.buffer_, 0, V.size_)
                              m4 == [m3 EXCEPT !.vec[v].data_ = new_data]
                          IN RawMemoryDtor(m4, V.data_)

\* Resize that grows the size without constructing the new elements.
ResizeNoConstruct(m, v, new_size) ==
  IF new_size > m.vec[v].size_
  THEN LET m1 == Reserve(m, v, new_size)
       IN IF m1.thrown # "" THEN m1 ELSE [m1 EXCEPT !.vec[v].size_ = new_size]
  ELSE [DestroyN(m, m.vec[v].data_.buffer_, new_size, m.vec[v].size_ - new_size) EXCEPT !.vec[v].size_ = new_size]

\* void Resize(size_t new_size)
Resize(m, v, new_size) ==
  LET V == m.vec[v]
  IN IF new_size > V.size_
     THEN LET m1 == Reserve(m, v, new_size)
          IN IF m1.thrown # "" THEN m1
             ELSE LET m2 == UninitializedValueConstructN(m1, m1.vec[v].data_.buffer_, V.size_, new_size - V.size_)
                  IN IF m2.thrown # "" THEN m2 ELSE [m2 EXCEPT !.vec[v].size_ = new_size]
     ELSE [DestroyN(m, V.data_.buffer_, new_size, V.size_ - new_size) EXCEPT !.vec[v].size_ = new_size]

\* ------------------------------------------------------------- actions
Alive(v) == vec[v].alive

\* The faults of F a call with n element steps can meet: the allocation, the
\* construction of one more object, and one per element step.
Upto(F, n) == {f \in F : f <= n + 2}

\* Addresses mean nothing beyond being equal or different, so a state is kept with its
\* buffers renamed in the order of their owners: the buffer of "a" first, then the buffer
\* of "b", then any buffer no vector owns.
VecOrder == <<"a", "b">>
Key(m, id) == IF \E i \in DOMAIN VecOrder : m.vec[VecOrder[i]].data_.buffer_ = id
              THEN CHOOSE i \in DOMAIN VecOrder : m.vec[VecOrder[i]].data_.buffer_ = id /\ \A j \in 1..(i - 1) : m.vec[VecOrder[j]].data_.buffer_ # id
              ELSE Len(VecOrder) + id
Rename(m, id) == IF id = NULL THEN NULL ELSE Cardinality({c \in DOMAIN m.heap : Key(m, c) < Key(m, id)}) + 1

\* The call returns (normally, or by the exception m.thrown) and its effect becomes the state.
\* The ghost throws counts the calls ended by an injected exception.
Commit(call) ==
  \E m \in {call} :
  \E ren \in {[c \in DOMAIN m.heap \cup {NULL} |-> Rename(m, c)]} :
    /\ m.f = 0
    /\ m.peak <= limit
    /\ m.thrown \notin {"", "range"} => throws < MaxThrows
    /\ heap' = [b \in {ren[c] : c \in DOMAIN m.heap} |-> m.heap[CHOOSE c \in DOMAIN m.heap : ren[c] = b]]
    /\ vec' = [x \in Vecs |-> [m.vec[x] EXCEPT !.data_.buffer_ = ren[@]]]
    /\ kind' = kind
    /\ limit' = limit
    /\ throws' = IF m.thrown \notin {"", "range"} THEN throws + 1 ELSE throws

CallDefaultCtor(v) ==
  /\ ~Alive(v)
  /\ Commit(DefaultCtor(Start(0), v))

CallSizedCtor(v, size, f) ==
  /\ ~Alive(v)
  /\ Commit(SizedCtor(Start(f), v, size))

CallCopyCtor(v, other, f) ==
  /\ ~Alive(v) /\ Alive(other) /\ kind # "MoveOnly"
  /\ Commit(CopyCtor(Start(f), v, other))

CallMoveCtor(v, other) ==
  /\ ~Alive(v) /\ Alive(other)
  /\ Commit(MoveCtor(Start(0), v, other))

CallDtor(v) ==
  /\ Alive(v)
  /\ Commit(Dtor(Start(0), v))

CallCopyAssign(v, rhs, f) ==
  /\ Alive(v) /\ Alive(rhs) /\ kind # "MoveOnly"
  /\ Commit(CopyAssign(Start(f), v, rhs))

CallMoveAssign(v, rhs) ==
  /\ Alive(v) /\ Alive(rhs)
  /\ Commit(MoveAssign(Start(0), v, rhs))

CallSwap(v, other) ==
  /\ Alive(v) /\ Alive(other)
  /\ Commit(Swap(Start(0), v, other))

CallPushBack(v, value, f) ==
  /\ Alive(v)
  /\ Commit(PushBack(Start(f), v, value))

CallEmplaceBack(v, args, f) ==
  /\ Alive(v)
  /\ Commit(EmplaceBack(Start(f), v, args))

CallInsert(v, pos, value, f) ==
  /\ Alive(v) /\ pos \in 0..Size(v)
  /\ Commit(Insert(Start(f), v, pos, value))

CallEmplace(v, pos, args, f) ==
  /\ Alive(v) /\ pos \in 0..Size(v)
  /\ Commit(Emplace(Start(f), v, pos, args))

CallPopBack(v) ==
  /\ Alive(v)
  /\ Commit(PopBack(Start(0), v))

CallErase(v, pos, f) ==
  /\ Alive(v) /\ pos \in 0..(Size(v) - 1)
  /\ Commit(Erase(Start(f), v, pos))

CallAt(v, index) ==
  /\ Alive(v)
  /\ Commit(At(Start(0), v, index))

CallSubscript(v, index, value) ==
  /\ Alive(v) /\ index \in 0..(Size(v) - 1)
  /\ Commit(Subscript(Start(0), v, index, value))

CallClear(v) ==
  /\ Alive(v)
  /\ Commit(Clear(Start(0), v))

CallReserve(v, new_capacity, f) ==
  /\ Alive(v)
  /\ Commit(Reserve(Start(f), v, new_capacity))

CallResize(v, new_size, f) ==
  /\ Alive(v)
  /\ Commit(Resize(Start(f), v, new_size))

\* The calls on one vector of V, with the faults of F injected.
Single(F, V) ==
  \/ \E v \in V : CallDefaultCtor(v)
  \/ \E v \in V, n \in 0..limit : \E f \in Upto(F, n) : CallSizedCtor(v, n, f)
  \/ \E v \in V : CallDtor(v)
  \/ \E v \in V, x \in Values : \E f \in Upto(F, Size(v)) : CallPushBack(v, x, f)
  \/ \E v \in V, x \in Values : \E f \in Upto(F, Size(v)) : CallEmplaceBack(v, x, f)
  \/ \E v \in V, x \in Values : \E p \in 0..Size(v), f \in Upto(F, Size(v)) : CallInsert(v, p, x, f)
  \/ \E v \in V, x \in Values : \E p \in 0..Size(v), f \in Upto(F, Size(v)) : CallEmplace(v, p, x, f)
  \/ \E v \in V : CallPopBack(v)
  \/ \E v \in V : \E p \in 0..(Size(v) - 1), f \in Upto(F, Size(v)) : CallErase(v, p, f)
  \/ \E v \in V, i \in 0..(limit + 1) : CallAt(v, i)
  \/ \E v \in V, x \in Values : \E i \in 0..(Size(v) - 1) : CallSubscript(v, i, x)
  \/ \E v \in V : CallClear(v)
  \/ \E v \in V, n \in 0..limit : \E f \in Upto(F, Size(v)) : CallReserve(v, n, f)
  \/ \E v \in V, n \in 0..limit : \E f \in Upto(F, n) : CallResize(v, n, f)

\* The calls that take a second vector.
Pair(F, V) ==
  \/ \E v, w \in V : \E f \in Upto(F, Size(w)) : CallCopyCtor(v, w, f)
  \/ \E v, w \in V : CallMoveCtor(v, w)
  \/ \E v, w \in V : \E f \in Upto(F, Size(w)) : CallCopyAssign(v, w, f)
  \/ \E v, w \in V : CallMoveAssign(v, w)
  \/ \E v, w \in V : CallSwap(v, w)

InitWith(capLimit) ==
  /\ heap = <<>>
  /\ vec = [v \in Vecs |-> NoVector]
  /\ kind \in Kinds
  /\ limit = capLimit
  /\ throws = 0

\* A program with one vector, with exceptions thrown by the allocator and the element type.
Init == InitWith(MaxCap)
Next == Single(Faults, {"a"})
Spec == Init /\ [][Next]_vars

\* A program with two vectors in which every call returns normally.
InitPair == InitWith(MaxPairCap)
NextPair == Single({0}, Vecs) \/ Pair({0}, Vecs)
SpecPair == InitPair /\ [][NextPair]_vars

\* ------------------------------------------------------------ properties
\* What a call leaves in vector v.
After(m, v) == ElemsOf(m.heap, m.vec[v])
Buffer(v) == vec[v].data_.buffer_
Appends(f, v, x) == {PushBack(Start(f), v, x), EmplaceBack(Start(f), v, x)}
Inserts(f, v, p, x) == {Insert(Start(f), v, p, x), Emplace(Start(f), v, p, x)}

\* C1: after any sequence of public operations that all return normally, every vector
\* has 0 <= size <= capacity, its buffer has capacity slots, and exactly the slots
\* [0, size) of the buffer hold constructed elements.
C1_SizeCapacityLive ==
  \A v \in Vecs : Alive(v) =>
    /\ 0 <= Size(v) /\ Size(v) <= Capacity(v)
    /\ (Capacity(v) = 0) = (Buffer(v) = NULL)
    /\ Capacity(v) > 0 => Buffer(v) \in DOMAIN heap /\ DOMAIN heap[Buffer(v)] = 0..(Capacity(v) - 1)
    /\ LiveSlots(heap, Buffer(v)) = 0..(Size(v) - 1)

\* C1 witness: two live vectors, one with elements and spare capacity after a removal or
\* a reserve, the other full.
C1_Witness ==
  /\ Alive("a") /\ Alive("b")
  /\ Size("a") = 2 /\ Capacity("a") = 3
  /\ Size("b") = 2 /\ Capacity("b") = 2
  /\ Elems("a") # Elems("b")

\* C2: when PushBack or EmplaceBack is called with size = capacity and the allocation, the
\* construction of the new element or the copy of an existing element throws, the vector's
\* size, capacity, buffer and elements, and the whole heap, are what they were before the call.
C2_AppendGrowthStrong ==
  \A v \in Vecs : (Alive(v) /\ Size(v) = Capacity(v)) =>
    \A x \in Values, f \in Faults : \A m \in Appends(f, v, x) :
      m.thrown \in {"alloc", "ctor", "copy"} => m.vec[v] = vec[v] /\ m.heap = heap

\* C2 witness: a full vector of two elements whose growth fails in the allocation, in the new
\* element's constructor and in the copy of the second element.
C2_Witness ==
  /\ Alive("a") /\ Size("a") = 2 /\ Capacity("a") = 2
  /\ PushBack(Start(1), "a", 1).thrown = "alloc"
  /\ EmplaceBack(Start(2), "a", 1).thrown = "ctor"
  /\ PushBack(Start(4), "a", 1).thrown = "copy"
  /\ After(PushBack(Start(4), "a", 1), "a") = Elems("a")

\* C3: when a growing operation fails because the copy of an existing element throws, nothing
\* is leaked: every object the call constructed in the new storage has been destroyed and the
\* new buffer released when the exception reaches the caller.
C3_NoLeakOnCopyFailure ==
  \A v \in Vecs : Alive(v) =>
    \A f \in Faults :
      \A m \in UNION {Appends(f, v, x) : x \in Values}
               \cup UNION {Inserts(f, v, p, x) : p \in 0..Size(v), x \in Values}
               \cup {Reserve(Start(f), v, n) : n \in 0..limit}
               \cup {Resize(Start(f), v, n) : n \in 0..limit} :
        m.thrown = "copy" => m.leaked = 0 /\ DOMAIN m.heap = DOMAIN heap

\* The source of a move is empty, the target holds what the source held, and the source
\* takes one more element normally.
MovedInto(m, target, source) ==
  /\ m.vec[source].size_ = 0
  /\ m.vec[target].size_ = Size(source)
  /\ m.vec[target].data_.capacity_ = Capacity(source)
  /\ After(m, target) = Elems(source)
  /\ \A x \in Values : LET m2 == PushBack(m, source, x)
                       IN m2.thrown = "" /\ m2.vec[source].size_ = 1 /\ After(m2, source)[0] = x

\* C4: after a move from vector a into a distinct vector b, by move construction or by move
\* assignment whatever b held before, a is empty, b holds a's former elements, size and
\* capacity, and a stays usable.
C4_MoveEmptiesSource ==
  \A a, b \in Vecs : (a # b /\ Alive(a)) =>
    IF Alive(b) THEN MovedInto(MoveAssign(Start(0), b, a), b, a)
    ELSE MovedInto(MoveCtor(Start(0), b, a), b, a)

\* The calls on one vector that C5 speaks of, with fault f injected.
Mutators(f, v) ==
  UNION {Appends(f, v, x) : x \in Values}
  \cup UNION {Inserts(f, v, p, x) : p \in 0..Size(v), x \in Values}
  \cup {Erase(Start(f), v, p) : p \in 0..(Size(v) - 1)}
  \cup {PopBack(Start(f), v), Clear(Start(f), v)}
  \cup {Reserve(Start(f), v, n) : n \in 0..limit}
  \cup {Resize(Start(f), v, n) : n \in 0..limit}

\* C5: no PushBack, EmplaceBack, Insert/Emplace, Erase, PopBack, Clear, Reserve or Resize
\* call leaves the vector with a smaller capacity than it had before the call.
C5_CapacityNeverDecreases ==
  \A v \in Vecs : Alive(v) =>
    \A f \in Faults : \A m \in Mutators(f, v) : m.vec[v].data_.capacity_ >= Capacity(v)

\* C6: Reserve(n) leaves the size and the elements unchanged and ends with capacity >= n;
\* when capacity >= n already holds, it changes nothing and allocates nothing.
C6_ReserveKeepsOrNoop ==
  \A v \in Vecs : Alive(v) =>
    \A n \in 0..limit :
      LET m == Reserve(Start(0), v, n)
      IN /\ m.thrown = ""
         /\ m.vec[v].size_ = Size(v)
         /\ After(m, v) = Elems(v)
         /\ m.vec[v].data_.capacity_ >= n
         /\ Capacity(v) >= n => (m.vec[v] = vec[v] /\ m.heap = heap /\ m.allocs = 0)

\* The smallest power of two that is >= n.
RECURSIVE PowerAtLeast(_, _)
PowerAtLeast(p, n) == IF p >= n THEN p ELSE PowerAtLeast(2 * p, n)
Max(x, y) == IF x >= y THEN x ELSE y

\* n successive appends of the value 1 to vector v, by PushBack and EmplaceBack in turn.
RECURSIVE AppendN(_, _, _)
AppendN(m, v, n) ==
  IF n = 0 THEN m
  ELSE IF n % 2 = 1 THEN PushBack(AppendN(m, v, n - 1), v, 1)
  ELSE EmplaceBack(AppendN(m, v, n - 1), v, 1)

\* C7: PushBack, EmplaceBack and Insert/Emplace allocate new storage only when size = capacity
\* at the call, and the new capacity is then max(1, 2 * old size); otherwise the capacity and
\* the buffer are unchanged.  Hence n successive appends to a default-constructed vector end
\* with n elements and, for n >= 1, a capacity that is the smallest power of two >= n.
C7_GrowthDoubling ==
  \A v \in Vecs :
    /\ Alive(v) =>
         \A f \in Upto(Faults, Size(v)), x \in Values :
           \A m \in Appends(f, v, x) \cup UNION {Inserts(f, v, p, x) : p \in 0..Size(v)} :
             IF Size(v) = Capacity(v)
             THEN IF m.thrown = ""
                  THEN m.allocs = 1 /\ m.vec[v].data_.capacity_ = Max(1, 2 * Size(v))
                  ELSE m.vec[v].data_ = vec[v].data_
             ELSE m.allocs = 0 /\ m.vec[v].data_ = vec[v].data_
    /\ ~Alive(v) =>
         \A n \in 0..(2 * limit) :
           LET m == AppendN(DefaultCtor(Start(0), v), v, n)
           IN /\ m.thrown = "" /\ m.vec[v].size_ = n
              /\ m.vec[v].data_.capacity_ = (IF n = 0 THEN 0 ELSE PowerAtLeast(1, n))

\* C7 witness: the vector is what three appends to a default-constructed vector make it,
\* with capacity 4 after the capacities 1 and 2, and the fourth append will not allocate.
C7_Witness ==
  /\ Alive("a") /\ Size("a") = 3 /\ Capacity("a") = 4
  /\ After(AppendN(DefaultCtor(Start(0), "a"), "a", 3), "a") = Elems("a")
  /\ AppendN(DefaultCtor(Start(0), "a"), "a", 2).vec["a"].data_.capacity_ = 2
  /\ PushBack(Start(0), "a", 1).allocs = 0

\* The vector v made a copy of vector w by the call m.
CopyOf(m, v, w) ==
  /\ m.thrown = ""
  /\ m.vec[v].size_ = Size(w)
  /\ After(m, v) = Elems(w)
  /\ m.vec[v].data_.buffer_ = NULL \/ m.vec[v].data_.buffer_ # m.vec[w].data_.buffer_
  /\ m.vec[w] = vec[w] /\ After(m, w) = Elems(w)

\* The mutating calls on one vector that C8 speaks of.
Writers(v) ==
  Mutators(0, v) \cup {Subscript(Start(0), v, i, x) : i \in 0..(Size(v) - 1), x \in Values}

\* C8: a vector made a copy of another, by copy construction or copy assignment, has the
\* same size and elements and shares no buffer with it; and a mutating call on one vector
\* (element write, PushBack, Insert, Erase, PopBack, Resize, Clear) leaves the size and
\* the elements of the other unchanged.
C8_CopyIndependence ==
  \A v, w \in Vecs : (v # w /\ Alive(w) /\ kind # "MoveOnly") =>
    /\ ~Alive(v) => CopyOf(CopyCtor(Start(0), v, w), v, w)
    /\ Alive(v) => CopyOf(CopyAssign(Start(0), v, w), v, w)
    /\ Alive(v) => Buffer(v) = NULL \/ Buffer(v) # Buffer(w)
    /\ Alive(v) => \A m \in Writers(v) : m.vec[w] = vec[w] /\ After(m, w) = Elems(w)

\* C8 witness: b equals a, element for element, in a buffer of its own, as copy assignment
\* would leave it, and a write to b does not reach a.
C8_Witness ==
  /\ Alive("a") /\ Alive("b") /\ kind = "Copy"
  /\ Size("a") = 2 /\ Elems("b") = Elems("a") /\ Buffer("b") # Buffer("a")
  /\ After(CopyAssign(Start(0), "b", "a"), "b") = Elems("b")
  /\ After(Subscript(Start(0), "b", 0, 1 - Elems("b")[0]), "a") = Elems("a")

\* C9: for every position p in [0, size] and every value, Insert at p followed by Erase at
\* p gives back the size and the element sequence of the vector, on the growth path and on
\* the no-growth path.
C9_InsertEraseInverse ==
  \A v \in Vecs : Alive(v) =>
    \A p \in 0..Size(v), x \in Values : \A m1 \in Inserts(0, v, p, x) :
      LET m2 == Erase(m1, v, p)
      IN /\ m1.thrown = "" /\ m2.thrown = ""
         /\ m2.vec[v].size_ = Size(v)
         /\ After(m2, v) = Elems(v)

\* C9 witness: a full vector of two different elements (growth path) takes a value in the
\* middle and gives it back.
C9_Witness ==
  /\ Alive("a") /\ Size("a") = 2 /\ Capacity("a") = 2 /\ Elems("a")[0] # Elems("a")[1]
  /\ After(Insert(Start(0), "a", 1, 1), "a")[1] = 1
  /\ Insert(Start(0), "a", 1, 1).vec["a"].size_ = 3
  /\ After(Erase(Insert(Start(0), "a", 1, 1), "a", 1), "a") = Elems("a")

\* C10: At(i) throws out_of_range exactly when i >= size and returns element i when
\* i < size; either way the size, the capacity, the buffer and the elements are unchanged.
C10_CheckedAccess ==
  \A v \in Vecs : Alive(v) =>
    \A i \in 0..(limit + 1) :
      LET m == At(Start(0), v, i)
      IN /\ (m.thrown = "range") = (i >= Size(v))
         /\ i < Size(v) => (m.thrown = "" /\ m.ret = Elems(v)[i])
         /\ m.heap = heap /\ m.vec[v] = vec[v]

\* C10 witness: on a vector of size 2, At(2) and At(3) throw and At(1) returns the last element.
C10_Witness ==
  /\ Alive("a") /\ Size("a") = 2 /\ Elems("a")[1] = 1
  /\ At(Start(0), "a", 2).thrown = "range"
  /\ At(Start(0), "a", 3).thrown = "range"
  /\ At(Start(0), "a", 1).thrown = "" /\ At(Start(0), "a", 1).ret = 1

Min(x, y) == IF x <= y THEN x ELSE y

\* C11: for a vector of size s and any k, Resize(k) followed by Resize(s) restores size s;
\* the elements at the indices below min(s, k) are unchanged after each of the two calls;
\* and every element a growing Resize creates is value-initialized (0).
C11_ResizeRoundTrip ==
  \A v \in Vecs : Alive(v) =>
    \A k \in 0..limit :
      LET s == Size(v)
          m1 == Resize(Start(0), v, k)
          m2 == Resize(m1, v, s)
      IN /\ m1.thrown = "" /\ m2.thrown = ""
         /\ m1.vec[v].size_ = k /\ m2.vec[v].size_ = s
         /\ \A i \in 0..(Min(s, k) - 1) : After(m1, v)[i] = Elems(v)[i] /\ After(m2, v)[i] = Elems(v)[i]
         /\ \A i \in s..(k - 1) : After(m1, v)[i] = 0
         /\ \A i \in k..(s - 1) : After(m2, v)[i] = 0

\* C11 witness: a vector [1, 1] that Resize(1), Resize(2) turns into [1, 0] and that
\* Resize(4) extends by two zeros.
C11_Witness ==
  /\ Alive("a") /\ Size("a") = 2 /\ Elems("a")[0] = 1 /\ Elems("a")[1] = 1
  /\ After(Resize(Resize(Start(0), "a", 1), "a", 2), "a")[1] = 0
  /\ After(Resize(Start(0), "a", 4), "a")[0] = 1
  /\ After(Resize(Start(0), "a", 4), "a")[3] = 0
  /\ Resize(Resize(Start(0), "a", 4), "a", 2).vec["a"].size_ = 2

\* C12: when a growing Resize(n), n > size, fails in the allocation, in the transfer of the
\* existing elements or in the value construction of a new element, the vector has the size
\* and the capacity it had before the call and its first size elements are unchanged.
C12_ResizeGrowthFailure ==
  \A v \in Vecs : Alive(v) =>
    \A n \in (Size(v) + 1)..limit, f \in Faults :
      LET m == Resize(Start(f), v, n)
      IN m.thrown # "" =>
           /\ m.vec[v].size_ = Size(v)
           /\ m.vec[v].data_.capacity_ = Capacity(v)
           /\ After(m, v) = Elems(v)

\* C13: copy assignment a = b between distinct vectors ends with a's size and elements equal
\* to b's and b unchanged; when b's size <= a's capacity it allocates nothing, keeps a's
\* capacity and buffer and leaves no constructed slot of a beyond b's size; when b's size >
\* a's capacity a ends with fresh storage of capacity b's size.  a = a changes nothing.
C13_CopyAssignment ==
  \A a, b \in Vecs : (Alive(a) /\ Alive(b) /\ kind # "MoveOnly") =>
    LET m == CopyAssign(Start(0), a, b)
    IN IF a = b THEN m = Start(0)
       ELSE /\ m.thrown = ""
            /\ m.vec[a].size_ = Size(b) /\ After(m, a) = Elems(b)
            /\ m.vec[b] = vec[b] /\ After(m, b) = Elems(b)
            /\ LiveSlots(m.heap, m.vec[a].data_.buffer_) = 0..(Size(b) - 1)
            /\ IF Size(b) <= Capacity(a)
               THEN m.allocs = 0 /\ m.vec[a].data_ = vec[a].data_
               ELSE /\ m.allocs = 1
                    /\ m.vec[a].data_.capacity_ = Size(b)
                    /\ m.vec[a].data_.buffer_ \notin DOMAIN heap
                    /\ Buffer(a) \notin DOMAIN m.heap

\* C13 witness: a holds one element in a buffer of one slot and b holds two other elements,
\* so a = b takes fresh storage and b = a overwrites in place and destroys b's second slot.
C13_Witness ==
  /\ Alive("a") /\ Alive("b") /\ kind = "Copy"
  /\ Size("a") = 1 /\ Capacity("a") = 1 /\ Size("b") = 2 /\ Elems("b")[0] # Elems("a")[0]
  /\ CopyAssign(Start(0), "a", "b").allocs = 1
  /\ After(CopyAssign(Start(0), "a", "b"), "a") = Elems("b")
  /\ CopyAssign(Start(0), "b", "a").allocs = 0
  /\ LiveSlots(CopyAssign(Start(0), "b", "a").heap, Buffer("b")) = {0}

\* The sequence e with x inserted at index p.
InsertedAt(e, n, p, x) == [i \in 0..n |-> IF i < p THEN e[i] ELSE IF i = p THEN x ELSE e[i - 1]]

\* C14: Insert/Emplace at index p in [0, n] of a vector e[0..n-1] ends with size n + 1 and
\* the elements e[0..p-1], x, e[p..n-1], and returns the position of index p, which holds x,
\* on the growth path, on the no-growth path and on the p = n path through EmplaceBack.
C14_InsertShifts ==
  \A v \in Vecs : Alive(v) =>
    \A p \in 0..Size(v), x \in Values : \A m \in Inserts(0, v, p, x) :
      /\ m.thrown = ""
      /\ m.vec[v].size_ = Size(v) + 1
      /\ After(m, v) = InsertedAt(Elems(v), Size(v), p, x)
      /\ m.ret = p /\ After(m, v)[m.ret] = x

\* C14 witness: a vector of two different elements with spare capacity takes a value between
\* them (no-growth path), and takes one at the end.
C14_Witness ==
  /\ Alive("a") /\ Size("a") = 2 /\ Capacity("a") = 4 /\ Elems("a")[0] # Elems("a")[1]
  /\ After(Insert(Start(0), "a", 1, Elems("a")[0]), "a")[2] = Elems("a")[1]
  /\ After(Insert(Start(0), "a", 1, Elems("a")[0]), "a")[1] = Elems("a")[0]
  /\ Emplace(Start(0), "a", 2, 1).ret = 2

\* The sequence e of n elements without the one at index p.
ErasedAt(e, n, p) == [i \in 0..(n - 2) |-> IF i < p THEN e[i] ELSE e[i + 1]]

\* C15: Erase at index p in [0, n) of a vector e[0..n-1], n > 0, ends with size n - 1, the
\* elements e[0..p-1], e[p+1..n-1], the capacity and the buffer unchanged and exactly one
\* slot destroyed, the last one; it returns the position of index p (end() when p = n - 1).
C15_EraseShifts ==
  \A v \in Vecs : Alive(v) =>
    \A p \in 0..(Size(v) - 1) :
      LET m == Erase(Start(0), v, p)
      IN /\ m.thrown = ""
         /\ m.vec[v].size_ = Size(v) - 1
         /\ After(m, v) = ErasedAt(Elems(v), Size(v), p)
         /\ m.vec[v].data_ = vec[v].data_
         /\ LiveSlots(heap, Buffer(v)) \ LiveSlots(m.heap, Buffer(v)) = {Size(v) - 1}
         /\ LiveSlots(m.heap, Buffer(v)) \subseteq LiveSlots(heap, Buffer(v))
         /\ m.ret = p
         /\ p = Size(v) - 1 => m.ret = m.vec[v].size_

\* C15 witness: a vector of three elements, the first unlike the others, loses its first
\* element, and loses its last one with end() returned.
C15_Witness ==
  /\ Alive("a") /\ Size("a") = 3 /\ Elems("a")[0] # Elems("a")[1]
  /\ After(Erase(Start(0), "a", 0), "a")[0] = Elems("a")[1]
  /\ After(Erase(Start(0), "a", 0), "a")[1] = Elems("a")[2]
  /\ Erase(Start(0), "a", 2).ret = 2

\* C16: PopBack on a vector of size n > 0 destroys exactly the last element and ends with
\* size n - 1, the capacity, the buffer and the other elements unchanged; PopBack on an empty
\* vector changes nothing.
C16_PopBackFrame ==
  \A v \in Vecs : Alive(v) =>
    LET m == PopBack(Start(0), v)
    IN IF Size(v) = 0 THEN m = Start(0)
       ELSE /\ m.thrown = ""
            /\ m.vec[v].size_ = Size(v) - 1
            /\ m.vec[v].data_ = vec[v].data_
            /\ DOMAIN m.heap = DOMAIN heap
            /\ m.heap[Buffer(v)][Size(v) - 1] = Dead
            /\ \A b \in DOMAIN heap : \A i \in DOMAIN heap[b] :
                 (b # Buffer(v) \/ i # Size(v) - 1) => m.heap[b][i] = heap[b][i]

\* C16 witness: the last of two elements goes and the first stays; and the empty vector
\* left by two calls takes a third call.
C16_Witness ==
  /\ Alive("a") /\ Size("a") = 2 /\ Capacity("a") = 2 /\ Elems("a")[0] = 1
  /\ After(PopBack(Start(0), "a"), "a")[0] = 1
  /\ PopBack(PopBack(Start(0), "a"), "a").vec["a"].size_ = 0
  /\ PopBack(PopBack(PopBack(Start(0), "a"), "a"), "a").vec["a"].size_ = 0
  /\ PopBack(PopBack(PopBack(Start(0), "a"), "a"), "a").vec["a"].data_.capacity_ = 2

\* C17: when Insert/Emplace before end() on a vector with size < capacity, whose constructed
\* slots are exactly [0, size), fails by a throwing element move assignment (in the backward
\* shift or in the assignment of the temporary), the size still counts the constructed
\* slots: no slot at an index >= size holds a constructed element.
C17_NoGrowthInsertBasic ==
  \A v \in Vecs : (Alive(v) /\ Size(v) < Capacity(v) /\ LiveSlots(heap, Buffer(v)) = 0..(Size(v) - 1)) =>
    \A p \in 0..(Size(v) - 1), x \in Values, f \in Faults : \A m \in Inserts(f, v, p, x) :
      m.thrown = "assign" => LiveSlots(m.heap, m.vec[v].data_.buffer_) = 0..(m.vec[v].size_ - 1)

\* The buffers the RawMemory members of the vectors of m own.
Owned(m) == {m.vec[x].data_.buffer_ : x \in DOMAIN m.vec} \ {NULL}
\* Every buffer of the heap of m has exactly one owner, every owner's buffer is in the heap
\* with capacity_ slots, a capacity of 0 goes with the null buffer, and nothing was released twice.
OwnedOnce(m) ==
  /\ Owned(m) = DOMAIN m.heap
  /\ \A x, y \in DOMAIN m.vec : (x # y /\ m.vec[x].data_.buffer_ # NULL) => m.vec[x].data_.buffer_ # m.vec[y].data_.buffer_
  /\ \A x \in DOMAIN m.vec :
       /\ (m.vec[x].data_.capacity_ = 0) = (m.vec[x].data_.buffer_ = NULL)
       /\ m.vec[x].data_.buffer_ # NULL => DOMAIN m.heap[m.vec[x].data_.buffer_] = 0..(m.vec[x].data_.capacity_ - 1)
       /\ ~m.vec[x].alive => m.vec[x].data_ = NullRaw
  /\ ~m.dfree

\* A second vector w made next to v, empty or with n elements, and the pending fault f.
WithOther(w, n, f) == [(IF n = 0 THEN DefaultCtor(Start(0), w) ELSE SizedCtor(Start(0), w, n)) EXCEPT !.f = f]

\* Every call on vector v, alone or with a second vector w, that allocates storage leaves
\* every buffer with one owner, with fault f injected.  (Insert is Emplace; Erase, PopBack
\* and Clear touch no RawMemory.)
AllocatingCallsOwnedOnce(f, v, w) ==
  IF ~Alive(v)
  THEN \A n \in 0..limit : OwnedOnce(SizedCtor(Start(f), v, n))
  ELSE /\ \A x \in Values : OwnedOnce(PushBack(Start(f), v, x)) /\ OwnedOnce(EmplaceBack(Start(f), v, x))
       /\ \A x \in Values, p \in 0..Size(v) : OwnedOnce(Emplace(Start(f), v, p, x))
       /\ \A n \in 0..limit : OwnedOnce(Reserve(Start(f), v, n)) /\ OwnedOnce(Resize(Start(f), v, n))
       /\ kind # "MoveOnly" =>
            /\ OwnedOnce(CopyCtor(Start(f), w, v))
            /\ \A n \in 0..limit : /\ OwnedOnce(CopyAssign(WithOther(w, n, f), v, w))
                                   /\ OwnedOnce(CopyAssign(WithOther(w, n, f), w, v))

\* The same for the calls that cannot throw: the noexcept ones, which exchange or release
\* buffers, and the self-assignment, which returns at once.
NoexceptCallsOwnedOnce(v, w) ==
  IF ~Alive(v)
  THEN OwnedOnce(DefaultCtor(Start(0), v))
  ELSE /\ OwnedOnce(Dtor(Start(0), v))
       /\ OwnedOnce(MoveAssign(Start(0), v, v)) /\ OwnedOnce(Swap(Start(0), v, v))
       /\ kind # "MoveOnly" => OwnedOnce(CopyAssign(Start(0), v, v))
       /\ OwnedOnce(MoveCtor(Start(0), w, v))
       /\ \A n \in 0..1 : /\ OwnedOnce(MoveAssign(WithOther(w, n, 0), v, w))
                           /\ OwnedOnce(MoveAssign(WithOther(w, n, 0), w, v))
                           /\ OwnedOnce(Swap(WithOther(w, n, 0), v, w))

\* Every vector of m destroyed.
RECURSIVE DtorAll(_, _)
DtorAll(m, V) == IF V = {} THEN m ELSE LET x == CHOOSE x \in V : TRUE IN DtorAll(Dtor(m, x), V \ {x})

\* C18: over any sequence of calls, successful or failing, every raw buffer has exactly one
\* owning RawMemory between and after the calls, none is released twice, and destroying every
\* vector releases them all; a RawMemory of capacity 0 holds nullptr and allocates nothing;
\* a swap or a move exchanges buffer and capacity and touches no storage; and releasing a
\* buffer destroys no element.
C18_BufferOwnership ==
  /\ OwnedOnce(Start(0))
  /\ DtorAll(Start(0), Vecs).heap = <<>> /\ ~DtorAll(Start(0), Vecs).dfree
  /\ \A v, w \in Vecs : v # w =>
       /\ \A f \in Upto(Faults, Size(v)) : AllocatingCallsOwnedOnce(f, v, w)
       /\ NoexceptCallsOwnedOnce(v, w)
       /\ Swap(Start(0), v, w).heap = heap
       /\ Swap(Start(0), v, w).vec[v].data_ = vec[w].data_
       /\ Swap(Start(0), v, w).vec[w].data_ = vec[v].data_
       /\ ~Alive(w) => MoveCtor(Start(0), w, v).vec[w].data_ = vec[v].data_
                        /\ MoveCtor(Start(0), w, v).vec[v].data_ = NullRaw
                        /\ MoveCtor(Start(0), w, v).heap = heap
       /\ Alive(v) => /\ RawMemoryDtor(Start(0), vec[v].data_).leaked = Cardinality(LiveSlots(heap, Buffer(v)))
                       /\ Buffer(v) \notin DOMAIN RawMemoryDtor(Start(0), vec[v].data_).heap
  /\ \A f \in Faults :
       /\ RawMemoryNew(Start(f), 0).raw = NullRaw
       /\ RawMemoryNew(Start(f), 0).allocs = 0
       /\ RawMemoryNew(Start(f), 0).heap = heap
       /\ RawMemoryNew(Start(f), 0).f = f

\* C18 witness: after a failed call, a full vector of two elements owns the only buffer; an
\* append moves it into a new buffer and releases the old one, a failing append releases the
\* new one, and the destructor empties the heap.
C18_Witness ==
  /\ Alive("a") /\ throws = 1 /\ Size("a") = 2 /\ Capacity("a") = 2
  /\ DOMAIN heap = {Buffer("a")}
  /\ PushBack(Start(0), "a", 1).vec["a"].data_.buffer_ # Buffer("a")
  /\ DOMAIN PushBack(Start(0), "a", 1).heap = {PushBack(Start(0), "a", 1).vec["a"].data_.buffer_}
  /\ PushBack(Start(2), "a", 1).thrown = "ctor"
  /\ DOMAIN PushBack(Start(2), "a", 1).heap = {Buffer("a")}
  /\ Dtor(Start(0), "a").heap = <<>>

\* C19: when the argument of PushBack, EmplaceBack, Insert or Emplace is a reference to
\* element i of the same vector, the element added has the value element i had before the
\* call and the other elements keep theirs, on the growth path and on the no-growth paths.
C19_SelfReferenceArgument ==
  \A v \in Vecs : Alive(v) =>
    \A i \in 0..(Size(v) - 1) :
      /\ \A m \in Appends(0, v, Ref(Buffer(v), i)) :
           m.thrown = "" /\ After(m, v) = InsertedAt(Elems(v), Size(v), Size(v), Elems(v)[i])
      /\ \A p \in 0..Size(v) : \A m \in Inserts(0, v, p, Ref(Buffer(v), i)) :
           m.thrown = "" /\ After(m, v) = InsertedAt(Elems(v), Size(v), p, Elems(v)[i])

\* C19 witness: a full vector [1, 0] of a type that is moved into new storage appends its
\* own first element, and inserts its own last element in front.
C19_Witness ==
  /\ Alive("a") /\ kind = "NothrowMove" /\ Size("a") = 2 /\ Capacity("a") = 2
  /\ Elems("a")[0] = 1 /\ Elems("a")[1] = 0
  /\ After(PushBack(Start(0), "a", Ref(Buffer("a"), 0)), "a")[2] = 1
  /\ After(Insert(Start(0), "a", 0, Ref(Buffer("a"), 1)), "a")[0] = 0
  /\ After(Insert(Start(0), "a", 0, Ref(Buffer("a"), 1)), "a")[2] = 0

\* C20: Erase's assertions admit only the positions in [begin, end) of a non-empty vector: a
\* call with pos = end(), with a position behind end() or on an empty vector is rejected by
\* an assertion and never reaches the shift, the destruction of the last slot or the decrement.
C20_ErasePrecondition ==
  \A v \in Vecs : Alive(v) =>
    \A pos \in 0..(Size(v) + 1) :
      pos \notin 0..(Size(v) - 1) => Erase(Start(0), v, pos).thrown = "assert"

====
